---- MODULE Spec2Model ----
(***************************************************************************)
(* State machine of the data-orchestration layer of the commodity          *)
(* sentiment dashboard (the App component): the sentiment cache, the       *)
(* fetch dispatcher fetchSentiment, the prefetch loop initialFetch, the    *)
(* 45 s background refresh interval and the selection handlers.            *)
(*                                                                         *)
(* JavaScript runs one task at a time: a click handler, a timer callback   *)
(* or the continuation of an awaited inference call runs to completion,    *)
(* together with the microtasks and the effects it triggers. Each such     *)
(* task is one action. The only suspension point is the await of           *)
(* getCommoditySentiment; a call that has been issued and has not yet      *)
(* settled is an element of inflight.                                      *)
(***************************************************************************)
EXTENDS Integers, Sequences, FiniteSets, Bags, TLC

----------------------------------------------------------------------------
(* Bounds of the model *)

\* most inference calls outstanding at once
MaxInflight == 2
\* most Context switches in one run
MaxSwitches == 1
\* distinct results the inference service can return
MaxData == 1
\* drivers listed in a result (indices of the expandable rows)
NumDrivers == 1
\* most user operations (clicks) in one run of Spec
MaxUser == 2
\* most user operations (clicks) in one run of SpecDeep
MaxUserDeep == 3
\* most user operations (clicks) in one run of SpecRace
MaxUserRace == 1
\* distinct results the inference service can return in SpecRace
MaxRaceData == 2

----------------------------------------------------------------------------
(* Program constants *)

\* The list of the source is ['Wheat', 'Cashew', 'Maize', 'Chana', 'Sugar'].
\* The model tracks its first two entries: this is a bound of the model, and
\* everything below is written for a list of any length N.
COMMODITIES == <<"Wheat", "Cashew">>

Contexts == {"India", "Global"}

N == Len(COMMODITIES)

Subjects == {COMMODITIES[i] : i \in 1..N}

\* COMMODITIES[i] of the source (0-based; undefined out of range)
At(i) == IF i + 1 \in DOMAIN COMMODITIES THEN COMMODITIES[i + 1] ELSE "undefined"

\* null of selectedCommodity
NULL == "null"

\* null of expandedDriver
NoDriver == -1

\* null of error; a stored message m is <<m>>
NoError == <<>>

Data == 1..MaxData

RaceData == 1..MaxRaceData

----------------------------------------------------------------------------
(* Strings that the code inspects are sequences of characters *)

Includes(s, sub) ==
  \E i \in 0..(Len(s) - Len(sub)) : SubSeq(s, i + 1, i + Len(sub)) = sub

S_API_KEY == <<"A", "P", "I", "_", "K", "E", "Y">>
S_network == <<"n", "e", "t", "w", "o", "r", "k">>
S_fetch == <<"f", "e", "t", "c", "h">>
S_429 == <<"4", "2", "9">>
S_undefined == <<"u", "n", "d", "e", "f", "i", "n", "e", "d">>

MsgAuth == <<"G", "e", "m", "i", "n", "i", " ", "A", "P", "I", " ", "K", "e", "y", " ", "i", "s", " ", "m", "i", "s", "s", "i", "n", "g", " ", "o", "r", " ", "i", "n", "v", "a", "l", "i", "d", ".">>
MsgNetwork == <<"N", "e", "t", "w", "o", "r", "k", " ", "e", "r", "r", "o", "r", ":", " ", "U", "n", "a", "b", "l", "e", " ", "t", "o", " ", "r", "e", "a", "c", "h", " ", "t", "h", "e", " ", "A", "I", " ", "s", "e", "r", "v", "i", "c", "e", ".">>
MsgRateLimit == <<"R", "a", "t", "e", " ", "l", "i", "m", "i", "t", " ", "e", "x", "c", "e", "e", "d", "e", "d", ".", " ", "P", "l", "e", "a", "s", "e", " ", "w", "a", "i", "t", ".">>
MsgErrorPrefix == <<"E", "r", "r", "o", "r", ":", " ">>

\* err.message of the failures the inference call is made to raise:
\* <<m>> is an error with message m (<<>> one without a message)
ErrBadKeyOnFetch == << <<"b", "a", "d", " ", "A", "P", "I", "_", "K", "E", "Y", " ", "o", "n", " ", "f", "e", "t", "c", "h">> >>
ErrNoNetwork429 == << <<"n", "o", " ", "n", "e", "t", "w", "o", "r", "k", ":", " ", "4", "2", "9">> >>
ErrFetch == << <<"f", "e", "t", "c", "h", " ", "f", "a", "i", "l", "e", "d">> >>
Err429 == << <<"4", "2", "9">> >>
ErrQuota == << <<"q", "u", "o", "t", "a">> >>

ErrInputs == {ErrBadKeyOnFetch, ErrNoNetwork429, ErrFetch, Err429, ErrQuota}

\* err.message?.includes(sub): undefined (falsy) when there is no message
MessageIncludes(err, sub) == err # <<>> /\ Includes(err[1], sub)

\* variant of ErrorMessage: "429" is looked for before "network" and "fetch"
ErrorMessageRateLimitFirst(err) ==
  IF MessageIncludes(err, S_API_KEY) THEN MsgAuth
  ELSE IF MessageIncludes(err, S_429) THEN MsgRateLimit
  ELSE IF MessageIncludes(err, S_network) \/ MessageIncludes(err, S_fetch) THEN MsgNetwork
  ELSE MsgErrorPrefix \o (IF err = <<>> THEN S_undefined ELSE err[1])

\* the message computed by the catch block of fetchSentiment
ErrorMessage(err) ==
  IF MessageIncludes(err, S_API_KEY) THEN MsgAuth
  ELSE IF MessageIncludes(err, S_network) \/ MessageIncludes(err, S_fetch) THEN MsgNetwork
  ELSE IF MessageIncludes(err, S_429) THEN MsgRateLimit
  ELSE MsgErrorPrefix \o (IF err = <<>> THEN S_undefined ELSE err[1])

----------------------------------------------------------------------------
(* Cache keys and cache writes *)

\* `${commodity}-${ctx}`
Key(commodity, ctx) == commodity \o "-" \o ctx

AllKeys == {Key(c, x) : c \in Subjects, x \in Contexts}

\* variant of Put: an entry that exists is kept
PutKeepFirst(prev, key, data) ==
  [k \in (DOMAIN prev) \cup {key} |-> IF k \in DOMAIN prev THEN prev[k] ELSE data]

\* variant of Put: the spread of prev is forgotten
PutNoSpread(prev, key, data) == [k \in {key} |-> data]

\* prev => ({ ...prev, [key]: data })
Put(prev, key, data) ==
  [k \in (DOMAIN prev) \cup {key} |-> IF k = key THEN data ELSE prev[k]]

\* variant of Has: any entry of the cache counts
HasAny(cache, key) == DOMAIN cache # {}

\* sentimentData[key] is truthy
Has(cache, key) == key \in DOMAIN cache

----------------------------------------------------------------------------
VARIABLES
  context,            \* 'India' | 'Global'
  selectedCommodity,  \* a commodity or NULL
  loading,            \* boolean
  sentimentData,      \* Record<string, SentimentData>
  error,              \* NoError or <<message>>
  expandedDriver,     \* a driver index or NoDriver
  refreshIndex,       \* 0 .. N-1
  inflight,           \* bag of issued, unsettled calls of fetchSentiment
  passes,             \* bag of running initialFetch loops
  timers,             \* the armed intervals, each with the values its callback closed over
  warmed,             \* history: the commodities dispatched by the initialFetch loop that finished last
  tickLog,            \* history: the commodities dispatched by the last N interval ticks
  mounted,            \* the component is mounted
  elapsed,            \* 45000 ms have passed since the armed interval was armed
  recording,          \* history: the run records its completions in settled
  settled,            \* history: the last three calls that settled, oldest first
  budget,             \* history: number of user operations the run may still take
  switches            \* history: number of Context switches so far

vars == <<context, selectedCommodity, loading, sentimentData, error,
          expandedDriver, refreshIndex, inflight, passes, timers, warmed, tickLog, mounted, elapsed, recording, settled, budget, switches>>

\* one call of fetchSentiment that is awaiting getCommoditySentiment;
\* awaited: the caller is an initialFetch loop that awaits the call
Call(commodity, ctx, isPrefetch, awaited) ==
  [commodity |-> commodity, ctx |-> ctx, isPrefetch |-> isPrefetch, awaited |-> awaited]

\* an initialFetch loop: the context it closed over, the position of the
\* for-of iterator (0-based), and (history) the commodities it has dispatched
Pass(ctx, i, issued) == [ctx |-> ctx, i |-> i, issued |-> issued]

\* the closure of one interval callback
Timer(idx, ctx) == [refreshIndex |-> idx, context |-> ctx]

Inflight == BagCardinality(inflight)

One(x) == SetToBag({x})

----------------------------------------------------------------------------
(* fetchSentiment, up to the await: lines 36-39 *)

\* variant of FetchStartLoading: setLoading(true) for every call
FetchStartLoadingAlways(isPrefetch) == TRUE

FetchStartLoading(isPrefetch) == IF ~isPrefetch THEN TRUE ELSE loading

\* variant of FetchStartError: setError(null) is forgotten
FetchStartErrorKeep(isPrefetch) == error

FetchStartError(isPrefetch) == NoError

(* fetchSentiment, after the await settles: lines 40-58 *)

\* variant of FetchDoneCache: the key is built from the context current at completion
FetchDoneCacheCurrentContext(call, ok, data) ==
  IF ok THEN Put(sentimentData, Key(call.commodity, context), data) ELSE sentimentData

\* variant of FetchDoneCache: the catch block drops the entry of the failed key
FetchDoneCacheDropOnFailure(call, ok, data) ==
  IF ok THEN Put(sentimentData, Key(call.commodity, call.ctx), data)
  ELSE [k \in DOMAIN sentimentData \ {Key(call.commodity, call.ctx)} |-> sentimentData[k]]

FetchDoneCache(call, ok, data) ==
  IF ok THEN Put(sentimentData, Key(call.commodity, call.ctx), data) ELSE sentimentData

\* variant of FetchDoneError: the catch block does not look at isPrefetch
FetchDoneErrorAlways(call, ok, err, cur) ==
  IF ~ok THEN <<ErrorMessage(err)>> ELSE cur

FetchDoneError(call, ok, err, cur) ==
  IF ~ok /\ ~call.isPrefetch THEN <<ErrorMessage(err)>> ELSE cur

\* variant of FetchDoneLoading: the finally block is forgotten
FetchDoneLoadingKeep(call, cur) == cur

FetchDoneLoading(call, cur) == IF ~call.isPrefetch THEN FALSE ELSE cur

----------------------------------------------------------------------------
(* The effects *)

\* await fetchSentiment(commodity, context, true) at iterator position i
PassCall(ctx, i) == Call(At(i), ctx, TRUE, TRUE)

\* initialFetch(): the loop starts and dispatches the first commodity
StartPass(ctx) == Pass(ctx, 0, <<PassCall(ctx, 0).commodity>>)

\* the loop moves on to the next commodity and dispatches it
StepPass(p) == Pass(p.ctx, p.i + 1, Append(p.issued, PassCall(p.ctx, p.i + 1).commodity))

\* variant of HasNext: the loop stops one element early
HasNextShort(i) == i + 2 < N

\* the for-of iterator has another element after position i
HasNext(i) == i + 1 < N

\* variant of Rearm: the effect has no dependencies, so the interval of the
\* first render, with the values it closed over, stays armed
RearmStale(idx, ctx) == {Timer(0, "India")}

\* variant of Rearm: the callback of the new interval starts from cursor 0
RearmResetCursor(idx, ctx) == {Timer(0, ctx)}

\* the interval effect: cleanup of the previous interval, then setInterval
Rearm(idx, ctx) == {Timer(idx, ctx)}

InitApp ==
  /\ context = "India"
  /\ selectedCommodity = NULL
  /\ loading = FALSE
  /\ sentimentData = [k \in {} |-> 0]
  /\ error = NoError
  /\ expandedDriver = NoDriver
  /\ refreshIndex = 0
  \* the mount effects have run
  /\ passes = One(StartPass("India"))
  /\ inflight = One(PassCall("India", 0))
  /\ timers = Rearm(0, "India")
  /\ mounted = TRUE
  /\ elapsed = FALSE
  /\ settled = <<>>
  /\ warmed = <<>>
  /\ tickLog = <<>>
  /\ switches = 0

Init == InitApp /\ budget = MaxUser /\ recording = FALSE

InitDeep == InitApp /\ budget = MaxUserDeep /\ recording = FALSE

InitRace == InitApp /\ budget = MaxUserRace /\ recording = TRUE

InitLoading == InitApp /\ budget = MaxUserDeep /\ recording = FALSE

\* SpecShown has three clicks and records the completions
InitShown == InitApp /\ budget = MaxUserDeep /\ recording = TRUE

\* SpecPeriod does not count the user's operations
InitPeriod == InitApp /\ budget = 0 /\ recording = FALSE

\* the user operations of SpecFair are the Context switches
InitFair == InitApp /\ budget = MaxSwitches /\ recording = FALSE

----------------------------------------------------------------------------
(* User operations *)

\* a commodity card of the grid, shown while nothing is selected
handleCommodityClick(commodity) ==
  /\ mounted
  /\ budget > 0
  /\ budget' = budget - 1
  /\ UNCHANGED <<mounted, elapsed, recording, settled>>
  /\ UNCHANGED switches
  /\ selectedCommodity = NULL
  /\ selectedCommodity' = commodity
  /\ expandedDriver' = NoDriver
  /\ IF ~Has(sentimentData, Key(commodity, context))
       THEN /\ Inflight < MaxInflight
            /\ loading' = FetchStartLoading(FALSE)
            /\ error' = FetchStartError(FALSE)
            /\ inflight' = inflight (+) One(Call(commodity, context, FALSE, FALSE))
       ELSE UNCHANGED <<loading, error, inflight>>
  /\ UNCHANGED <<context, sentimentData, refreshIndex, passes, timers, warmed, tickLog>>

\* variant of Deselect: the foreground calls in flight are abandoned
DeselectCancels ==
  /\ mounted
  /\ budget > 0
  /\ budget' = budget - 1
  /\ UNCHANGED <<mounted, elapsed, recording, settled>>
  /\ UNCHANGED switches
  /\ selectedCommodity # NULL
  /\ selectedCommodity' = NULL
  /\ inflight' = [c \in {x \in BagToSet(inflight) : x.isPrefetch} |-> inflight[c]]
  /\ loading' = FALSE
  /\ UNCHANGED <<context, sentimentData, error, expandedDriver,
                 refreshIndex, passes, timers, warmed, tickLog>>

\* "Back to Dashboard", shown while a commodity is selected
Deselect ==
  /\ mounted
  /\ budget > 0
  /\ budget' = budget - 1
  /\ UNCHANGED <<mounted, elapsed, recording, settled>>
  /\ UNCHANGED switches
  /\ selectedCommodity # NULL
  /\ selectedCommodity' = NULL
  /\ UNCHANGED <<context, loading, sentimentData, error, expandedDriver,
                 refreshIndex, inflight, passes, timers, warmed, tickLog>>

\* "Retry Analysis", shown in the error branch of the detail view
Retry ==
  /\ mounted
  /\ budget > 0
  /\ budget' = budget - 1
  /\ UNCHANGED <<mounted, elapsed, recording, settled>>
  /\ UNCHANGED switches
  /\ selectedCommodity # NULL
  /\ ~loading
  /\ error # NoError
  /\ Inflight < MaxInflight
  /\ loading' = FetchStartLoading(FALSE)
  /\ error' = FetchStartError(FALSE)
  /\ inflight' = inflight (+) One(Call(selectedCommodity, context, FALSE, FALSE))
  /\ UNCHANGED <<context, selectedCommodity, sentimentData, expandedDriver,
                 refreshIndex, passes, timers, warmed, tickLog>>

\* a driver row, shown in the data branch of the detail view
ToggleDriver(idx) ==
  /\ mounted
  /\ budget > 0
  /\ budget' = budget - 1
  /\ UNCHANGED <<mounted, elapsed, recording, settled>>
  /\ UNCHANGED switches
  /\ selectedCommodity # NULL
  /\ ~loading
  /\ error = NoError
  /\ Has(sentimentData, Key(selectedCommodity, context))
  /\ expandedDriver' = IF expandedDriver = idx THEN NoDriver ELSE idx
  /\ UNCHANGED <<context, selectedCommodity, loading, sentimentData, error,
                 refreshIndex, inflight, passes, timers, warmed, tickLog>>

\* variant of PeriodOfNewInterval: the new interval takes over the time that
\* has passed on the one it replaces
PeriodOfNewIntervalCarried(passed) == passed

\* setInterval(..., 45000) in an effect that has run again: whether the period
\* of the newly armed interval has run out, given whether the period of the
\* cleared one had
PeriodOfNewInterval(passed) == FALSE

\* setContext(ctx) with another value: the render that follows runs both
\* effects again, the prefetch effect and the interval effect
SwitchContext(ctx) ==
  /\ mounted
  /\ UNCHANGED <<mounted, recording, settled>>
  /\ elapsed' = PeriodOfNewInterval(elapsed)
  /\ ctx # context
  /\ Inflight < MaxInflight
  /\ context' = ctx
  \* prefetch effect
  /\ passes' = passes (+) One(StartPass(ctx))
  /\ inflight' = inflight (+) One(PassCall(ctx, 0))
  /\ loading' = FetchStartLoading(TRUE)
  /\ error' = FetchStartError(TRUE)
  \* interval effect
  /\ timers' = Rearm(refreshIndex, ctx)
  /\ UNCHANGED <<selectedCommodity, sentimentData, expandedDriver, refreshIndex, warmed, tickLog>>

\* the India / Global buttons; setContext with the current value changes nothing
SetContext(ctx) ==
  /\ budget > 0
  /\ budget' = budget - 1
  /\ switches < MaxSwitches
  /\ switches' = switches + 1
  /\ SwitchContext(ctx)

----------------------------------------------------------------------------
(* The interval callback *)

\* variant of NextIndex: the modulo is forgotten
NextIndexNoWrap(idx) == idx + 1

\* variant of NextIndex: the cursor advances by two
NextIndexSkip(idx) == (idx + 2) % N

\* const nextIndex = (refreshIndex + 1) % COMMODITIES.length
NextIndex(idx) == (idx + 1) % N

LogTick(log, commodity) ==
  IF Len(log) < N THEN Append(log, commodity) ELSE Append(Tail(log), commodity)

\* 45000 ms have passed since the interval was armed
PeriodElapses ==
  /\ timers # {}
  /\ ~elapsed
  /\ elapsed' = TRUE
  /\ UNCHANGED <<context, selectedCommodity, loading, sentimentData, error, expandedDriver,
                 refreshIndex, inflight, passes, timers, warmed, tickLog, mounted, recording, settled,
                 budget, switches>>

\* the callback of the interval t runs; the interval is armed again by the
\* effect, or stays armed, and its next period begins
IntervalTick(t) ==
  /\ UNCHANGED <<mounted, recording, settled, budget, switches>>
  /\ elapsed' = PeriodOfNewInterval(elapsed)
  /\ t \in timers
  /\ Inflight < MaxInflight
  /\ LET nextIndex == NextIndex(t.refreshIndex)
         commodity == At(nextIndex)
     IN /\ refreshIndex' = nextIndex
        /\ loading' = FetchStartLoading(TRUE)
        /\ error' = FetchStartError(TRUE)
        /\ inflight' = inflight (+) One(Call(commodity, t.context, TRUE, FALSE))
        /\ tickLog' = LogTick(tickLog, commodity)
        \* the effect runs again when refreshIndex has changed
        /\ timers' = IF nextIndex # refreshIndex THEN Rearm(nextIndex, context) ELSE timers
  /\ UNCHANGED <<context, selectedCommodity, sentimentData, expandedDriver, passes, warmed>>

----------------------------------------------------------------------------
(* The component is unmounted *)

\* variant of Cleanup: the effect returns no cleanup function
CleanupMissing(armed) == armed

\* the cleanup of the interval effect: clearInterval(interval)
Cleanup(armed) == {}

\* React runs the cleanups of the effects; the prefetch effect has none, and
\* calls in flight are not cancelled. There is no user interface any more.
Unmount ==
  /\ mounted
  /\ mounted' = FALSE
  /\ timers' = Cleanup(timers)
  /\ elapsed' = FALSE
  /\ budget' = 0
  /\ UNCHANGED <<context, selectedCommodity, loading, sentimentData, error, expandedDriver,
                 refreshIndex, inflight, passes, warmed, tickLog, recording, settled, switches>>

----------------------------------------------------------------------------
(* The inference call settles *)

\* the loop that awaits call
AwaitingPasses(call) ==
  {p \in BagToSet(passes) : PassCall(p.ctx, p.i) = call}

\* the for-of loop of initialFetch continues after the awaited call:
\* the next fetchSentiment is called, or the loop ends
Continue(call, p, err0) ==
  IF HasNext(p.i)
    THEN /\ passes' = (passes (-) One(p)) (+) One(StepPass(p))
         /\ inflight' = (inflight (-) One(call)) (+) One(PassCall(p.ctx, p.i + 1))
         /\ error' = FetchStartError(TRUE)
         /\ warmed' = warmed
    ELSE /\ passes' = passes (-) One(p)
         /\ inflight' = inflight (-) One(call)
         /\ error' = err0
         /\ warmed' = p.issued

\* the completion of call, with the calls for the same key that are still
\* in flight
Completion(call, ok, data) ==
  [call |-> call, ok |-> ok, data |-> data,
   rivals |-> {c \in BagToSet(inflight (-) One(call)) :
                 Key(c.commodity, c.ctx) = Key(call.commodity, call.ctx)}]

\* the history keeps three completions: two that race for a key and one in
\* between
LogSettled(log, e) ==
  IF Len(log) < 3 THEN Append(log, e) ELSE Append(Tail(log), e)

Settle(call, ok, data, err) ==
  /\ UNCHANGED <<mounted, elapsed, recording, budget, switches>>
  /\ BagIn(call, inflight)
  /\ settled' = IF recording THEN LogSettled(settled, Completion(call, ok, data)) ELSE settled
  /\ sentimentData' = FetchDoneCache(call, ok, data)
  /\ loading' = FetchDoneLoading(call, loading)
  /\ IF call.awaited
       THEN \E p \in AwaitingPasses(call) :
              Continue(call, p, FetchDoneError(call, ok, err, error))
       ELSE /\ inflight' = inflight (-) One(call)
            /\ error' = FetchDoneError(call, ok, err, error)
            /\ UNCHANGED <<passes, warmed>>
  /\ UNCHANGED <<context, selectedCommodity, expandedDriver, refreshIndex, timers, tickLog>>

Resolve(call, data) == Settle(call, TRUE, data, <<>>)

\* variant of Reject: fetchSentiment has no catch block, so the failure of an
\* awaited call is thrown out of the loop of initialFetch, which ends
RejectAborts(call, err) ==
  IF call.awaited
    THEN /\ BagIn(call, inflight)
         /\ \E p \in AwaitingPasses(call) : passes' = passes (-) One(p)
         /\ inflight' = inflight (-) One(call)
         /\ UNCHANGED <<context, selectedCommodity, loading, sentimentData, error, expandedDriver,
                        refreshIndex, timers, warmed, tickLog, mounted, elapsed, recording,
                        settled, budget, switches>>
    ELSE Settle(call, FALSE, 0, err)

Reject(call, err) == Settle(call, FALSE, 0, err)

----------------------------------------------------------------------------
Next ==
  \/ \E c \in Subjects : handleCommodityClick(c)
  \/ Deselect
  \/ Retry
  \/ \E idx \in 0..(NumDrivers - 1) : ToggleDriver(idx)
  \/ \E ctx \in Contexts : SetContext(ctx)
  \/ \E t \in timers : IntervalTick(t)
  \/ \E call \in BagToSet(inflight), data \in Data : Resolve(call, data)
  \/ \E call \in BagToSet(inflight), err \in ErrInputs : Reject(call, err)

Spec == Init /\ [][Next]_vars

\* the same program with a larger budget of user operations
SpecDeep == InitDeep /\ [][Next]_vars

\* Spec and SpecDeep describe the component for as long as it is mounted.
\* SpecTeardown adds its unmount.
NextTeardown == Next \/ Unmount

SpecTeardown == Init /\ [][NextTeardown]_vars

\* Spec and SpecDeep let the callback of an armed interval run at any time.
\* SpecTimed lets it run only when the period has elapsed since the interval
\* was armed.
TimedTick(t) == elapsed /\ IntervalTick(t)

NextTimed ==
  \/ \E c \in Subjects : handleCommodityClick(c)
  \/ Deselect
  \/ Retry
  \/ \E idx \in 0..(NumDrivers - 1) : ToggleDriver(idx)
  \/ \E ctx \in Contexts : SetContext(ctx)
  \/ PeriodElapses
  \/ \E t \in timers : TimedTick(t)
  \/ \E call \in BagToSet(inflight), data \in Data : Resolve(call, data)
  \/ \E call \in BagToSet(inflight), err \in ErrInputs : Reject(call, err)

SpecTimed == Init /\ [][NextTimed]_vars

\* every call of fetchSentiment that can be in flight
Calls == [commodity : Subjects, ctx : Contexts, isPrefetch : BOOLEAN, awaited : BOOLEAN]

\* the inference call of call returns or fails
SettleCall(call) ==
  \/ \E data \in Data : Resolve(call, data)
  \/ \E err \in ErrInputs : Reject(call, err)

\* SpecFair has what starts and drives the prefetch passes (the mount, the
\* Context switches, the completions) and the interval, under the assumption
\* that every inference call eventually returns or fails.
NextFair ==
  \/ \E ctx \in Contexts : SetContext(ctx)
  \/ \E t \in timers : IntervalTick(t)
  \/ \E call \in BagToSet(inflight), data \in Data : Resolve(call, data)
  \/ \E call \in BagToSet(inflight), err \in ErrInputs : Reject(call, err)

SpecFair ==
  /\ InitFair
  /\ [][NextFair]_vars
  /\ \A call \in Calls : WF_vars(SettleCall(call))

\* the intervals the interval effect can arm
Timers == {Timer(idx, ctx) : idx \in 0..(N - 1), ctx \in Contexts}

\* the period of the armed interval t runs out
PeriodElapsesFor(t) == t \in timers /\ PeriodElapses

\* a Context switch that may be repeated without end
SwitchAgain(ctx) == SwitchContext(ctx) /\ UNCHANGED <<budget, switches>>

\* SpecPeriod has what arms the interval and what it drives: Context switches
\* without a limit on their number, the passing of the period, the callback
\* and the completions. An interval that stays armed sees its period run out
\* and its callback run (an interval that is cleared and armed anew starts a
\* new period, so switching again and again may keep every period from running
\* out), and every inference call eventually returns or fails.
NextPeriod ==
  \/ \E ctx \in Contexts : SwitchAgain(ctx)
  \/ PeriodElapses
  \/ \E t \in timers : TimedTick(t)
  \/ \E call \in BagToSet(inflight) : Resolve(call, 1)
  \/ \E call \in BagToSet(inflight) : Reject(call, ErrQuota)

SpecPeriod ==
  /\ InitPeriod
  /\ [][NextPeriod]_vars
  /\ \A t \in Timers : WF_vars(PeriodElapsesFor(t)) /\ WF_vars(TimedTick(t))
  /\ \A call \in Calls : WF_vars(SettleCall(call))

\* SpecLoading has what sets and clears loading (select, retry, and deselect,
\* after which a second foreground call can be issued, and the completions)
\* and the interval, under the same assumption.
NextLoading ==
  \/ \E c \in Subjects : handleCommodityClick(c)
  \/ Deselect
  \/ Retry
  \/ \E t \in timers : IntervalTick(t)
  \/ \E call \in BagToSet(inflight), data \in Data : Resolve(call, data)
  \/ \E call \in BagToSet(inflight), err \in ErrInputs : Reject(call, err)

SpecLoading ==
  /\ InitLoading
  /\ [][NextLoading]_vars
  /\ \A call \in Calls : WF_vars(SettleCall(call))

\* SpecRace has the three sources of dispatches (the prefetch pass, the
\* interval and the selection of a Subject), results that differ, one kind of
\* failure, and records the completions.
NextRace ==
  \/ \E c \in Subjects : handleCommodityClick(c)
  \/ \E t \in timers : IntervalTick(t)
  \/ \E call \in BagToSet(inflight), data \in RaceData : Resolve(call, data)
  \/ \E call \in BagToSet(inflight) : Reject(call, ErrQuota)

SpecRace == InitRace /\ [][NextRace]_vars

\* SpecShown has what decides which error the detail view shows for which
\* selection: select, deselect, retry, the Context switch, and the completions
\* of the calls, with one result and one kind of failure, and records the
\* completions.
NextShown ==
  \/ \E c \in Subjects : handleCommodityClick(c)
  \/ Deselect
  \/ Retry
  \/ \E ctx \in Contexts : SetContext(ctx)
  \/ \E call \in BagToSet(inflight) : Resolve(call, 1)
  \/ \E call \in BagToSet(inflight) : Reject(call, ErrQuota)

SpecShown == InitShown /\ [][NextShown]_vars

----------------------------------------------------------------------------
(* Properties *)

\* the foreground calls in flight, as a bag
ForegroundCalls == [c \in {x \in BagToSet(inflight) : ~x.isPrefetch} |-> inflight[c]]

\* the calls in flight that an initialFetch loop awaits, as a bag
PassCalls == [c \in {x \in BagToSet(inflight) : x.awaited} |-> inflight[c]]

\* the step issues or settles a call of fetchSentiment with isPrefetch = true
BackgroundStep ==
  \E c \in BagToSet(inflight) \cup BagToSet(inflight') :
    c.isPrefetch /\ CopiesIn(c, inflight') # CopiesIn(c, inflight)

\* C1: a step that issues or completes a non-foreground (prefetch or tick)
\* dispatch leaves the error message and the loading flag as they were.
C1_BackgroundKeepsFlags ==
  [][BackgroundStep => (error' = error /\ loading' = loading)]_vars

\* C2: in every reachable state at most one foreground dispatch is in flight.
C2_OneForeground == BagCardinality(ForegroundCalls) <= 1

\* the step settles a call whose key is k
SettlesKey(k) ==
  \E c \in BagToSet(inflight) :
    Key(c.commodity, c.ctx) = k /\ CopiesIn(c, inflight') < CopiesIn(c, inflight)

\* C3: a key of the cache stays in the cache in every step, and an entry is
\* added or changes its value only in a step that settles a dispatch for
\* that same key.
C3_CacheGrowsOnly ==
  [][ /\ DOMAIN sentimentData \subseteq DOMAIN sentimentData'
      /\ \A k \in DOMAIN sentimentData' :
           (k \notin DOMAIN sentimentData \/ sentimentData'[k] # sentimentData[k])
             => SettlesKey(k) ]_vars

\* C3 witness: after a Context switch the cache holds an entry of the old
\* Context next to one of the new Context.
C3_Witness ==
  /\ context = "Global"
  /\ Has(sentimentData, "Wheat-India")
  /\ Has(sentimentData, "Wheat-Global")

IdleNoSelection == selectedCommodity = NULL /\ ~loading /\ error = NoError

IdleSelectionNoData ==
  /\ selectedCommodity # NULL /\ ~loading /\ error = NoError
  /\ ~Has(sentimentData, Key(selectedCommodity, context))

LoadingSelection == selectedCommodity # NULL /\ loading

ErrorSelection == selectedCommodity # NULL /\ error # NoError

LoadedSelection ==
  /\ selectedCommodity # NULL /\ ~loading /\ error = NoError
  /\ Has(sentimentData, Key(selectedCommodity, context))

\* C4: in every reachable state the flags are in one of the five valid joint
\* states, so loading or a stored error occur only while a Subject is selected.
C4_ValidJointStates ==
  \/ IdleNoSelection
  \/ IdleSelectionNoData
  \/ LoadingSelection
  \/ ErrorSelection
  \/ LoadedSelection

\* the number of running loops that were started under ctx and whose last
\* dispatch is for commodity c
LoopsAt(ctx, c) ==
  BagCardinality([p \in {q \in BagToSet(passes) : q.ctx = ctx /\ q.issued[Len(q.issued)] = c}
                    |-> passes[p]])

\* C5: a prefetch pass dispatches the Subjects in list order, every dispatch
\* non-foreground, has exactly one dispatch in flight while it runs (the one
\* it dispatched last), and has dispatched exactly the N Subjects when it ends.
C5_PassSequential ==
  /\ \A p \in BagToSet(passes) :
       /\ Len(p.issued) \in 1..N
       /\ p.issued = SubSeq(COMMODITIES, 1, Len(p.issued))
  /\ \A c \in BagToSet(PassCalls) : c.isPrefetch /\ c.commodity \in Subjects
  /\ \A ctx \in Contexts, c \in Subjects :
       CopiesIn([commodity |-> c, ctx |-> ctx, isPrefetch |-> TRUE, awaited |-> TRUE], inflight)
         = LoopsAt(ctx, c)
  /\ warmed \in {<<>>, COMMODITIES}

\* C5 witness: a pass has run to its end.
C5_Witness == warmed = COMMODITIES /\ passes = EmptyBag

\* C6: at no point are two dispatches of the Prefetch Driver in flight.
C6_OnePrefetchInFlight == BagCardinality(PassCalls) <= 1

\* the step is a tick of the interval
TickStep == tickLog' # tickLog

\* C7: a tick sets the cursor to (cursor + 1) mod N and issues exactly one
\* non-foreground dispatch, for the Subject at the new cursor under the
\* Context current at the tick; the first tick refreshes Subjects[1 mod N].
C7_TickAdvances ==
  [][TickStep =>
       /\ refreshIndex' = (refreshIndex + 1) % N
       /\ context' = context
       /\ inflight' = inflight (+) SetToBag({[commodity |-> COMMODITIES[refreshIndex' + 1],
                                              ctx |-> context,
                                              isPrefetch |-> TRUE,
                                              awaited |-> FALSE]})
       /\ (tickLog = <<>> => tickLog' = <<COMMODITIES[(1 % N) + 1]>>)]_vars

\* C7 witness: a tick has fired under the Context the user switched to.
C7_Witness ==
  /\ refreshIndex = 1 % N
  /\ Len(tickLog) = 1
  /\ BagIn([commodity |-> COMMODITIES[(1 % N) + 1], ctx |-> "Global",
            isPrefetch |-> TRUE, awaited |-> FALSE], inflight)

\* C8: any N consecutive ticks refresh every Subject exactly once (and fewer
\* than N consecutive ticks refresh no Subject twice).
C8_CyclicCoverage ==
  /\ \A i, j \in 1..Len(tickLog) : i # j => tickLog[i] # tickLog[j]
  /\ Len(tickLog) = N => {tickLog[i] : i \in 1..N} = Subjects

\* C8 witness: more than N ticks have fired, with a Context switch and a
\* selection in between.
C8_Witness ==
  /\ Len(tickLog) = N
  /\ tickLog[N] = COMMODITIES[(1 % N) + 1]
  /\ context = "Global"
  /\ selectedCommodity # NULL

\* C9: the round-robin cursor is an integer in [0, N).
C9_CursorInRange == refreshIndex \in 0..(N - 1)

\* C9 witness: the cursor has wrapped around to 0.
C9_Witness == refreshIndex = 0 /\ Len(tickLog) = N

\* C10: a successful dispatch for (subject, context) writes the result at the
\* key of the (subject, context) it was issued with and leaves every other
\* entry of the cache as it was.
C10_SuccessWritesOwnKey ==
  [][\A call \in BagToSet(inflight), data \in Data :
       (CopiesIn(call, inflight') < CopiesIn(call, inflight) /\ Resolve(call, data)) =>
         LET own == call.commodity \o "-" \o call.ctx
         IN /\ DOMAIN sentimentData' = DOMAIN sentimentData \cup {own}
            /\ sentimentData'[own] = data
            /\ \A k \in DOMAIN sentimentData \ {own} : sentimentData'[k] = sentimentData[k]]_vars

\* C10 witness: the cache holds a result of the old Context and none of the
\* new Context for a Subject that is selected and shown as failed.
C10_Witness ==
  /\ context = "Global"
  /\ selectedCommodity = "Cashew"
  /\ error # NoError
  /\ Has(sentimentData, "Cashew-India")
  /\ ~Has(sentimentData, "Cashew-Global")

\* C11: a step in which a dispatch fails, foreground or not, leaves the whole
\* cache as it was, the entry of the failing key included: a step that
\* changes the cache is not the failure of a call.
C11_FailureWritesNothing ==
  [][\/ sentimentData' = sentimentData
     \/ \A call \in BagToSet(inflight), err \in ErrInputs :
          ~(CopiesIn(call, inflight') < CopiesIn(call, inflight) /\ Reject(call, err))]_vars

\* C11 witness: the foreground dispatch for the selected Subject has failed
\* after the running prefetch pass had cached that key (no tick has fired and
\* the pass has not ended, so the entry was written before the failure).
C11_Witness ==
  /\ context = "India"
  /\ switches = 0
  /\ selectedCommodity = "Wheat"
  /\ error # NoError
  /\ Has(sentimentData, "Wheat-India")
  /\ warmed = <<>>
  /\ tickLog = <<>>

\* the taxonomy class of each injected failure, by the precedence Auth,
\* Network, RateLimit, Unclassified
ExpectedMessage(err) ==
  CASE err = ErrBadKeyOnFetch -> MsgAuth      \* "API_KEY" and "fetch"
    [] err = ErrNoNetwork429 -> MsgNetwork    \* "network" and "429"
    [] err = ErrFetch -> MsgNetwork           \* "fetch"
    [] err = Err429 -> MsgRateLimit           \* "429"
    [] err = ErrQuota -> <<"E", "r", "r", "o", "r", ":", " ", "q", "u", "o", "t", "a">>

\* C12: a step in which a foreground dispatch fails stores the message of the
\* failure's taxonomy class (Auth before Network before RateLimit before
\* Unclassified with the raw text) as the error, whatever the error was
\* before, and sets loading to false.
C12_ForegroundFailureClassified ==
  [][\A call \in BagToSet(inflight), err \in ErrInputs :
       (/\ CopiesIn(call, inflight') < CopiesIn(call, inflight)
        /\ ~call.isPrefetch
        /\ Reject(call, err)) =>
         /\ error' = <<ExpectedMessage(err)>>
         /\ loading' = FALSE]_vars

\* C12 witness: a foreground dispatch has failed and its failure is shown as
\* a Network error.
C12_Witness ==
  /\ selectedCommodity # NULL
  /\ ~loading
  /\ error = <<MsgNetwork>>
  /\ ForegroundCalls = EmptyBag

\* the step is a select: a Subject becomes selected
SelectStep == selectedCommodity = NULL /\ selectedCommodity' # NULL

\* C13: select(subject) makes subject the current Subject and sets
\* expandedDriver to null; if the cache has no entry for (subject, current
\* Context) it issues exactly one foreground dispatch for that key and sets
\* loading, whatever else is in flight; if the cache has the entry it issues
\* nothing and leaves loading and error as they were.
C13_SelectDispatchesIffAbsent ==
  [][SelectStep =>
       LET own == selectedCommodity' \o "-" \o context
           fg == [commodity |-> selectedCommodity', ctx |-> context,
                  isPrefetch |-> FALSE, awaited |-> FALSE]
       IN /\ selectedCommodity' \in Subjects
          /\ expandedDriver' = NoDriver
          /\ context' = context
          /\ sentimentData' = sentimentData
          /\ IF own \notin DOMAIN sentimentData
               THEN /\ inflight' = inflight (+) SetToBag({fg})
                    /\ loading' = TRUE
               ELSE /\ inflight' = inflight
                    /\ loading' = loading
                    /\ error' = error]_vars

\* C13 witness: the Subject was selected while the prefetch dispatch for the
\* same key was in flight: both dispatches are in flight and loading is true.
C13_Witness ==
  /\ selectedCommodity = "Wheat"
  /\ loading
  /\ BagIn([commodity |-> "Wheat", ctx |-> "India", isPrefetch |-> FALSE, awaited |-> FALSE], inflight)
  /\ BagIn([commodity |-> "Wheat", ctx |-> "India", isPrefetch |-> TRUE, awaited |-> TRUE], inflight)

\* the step is a Context switch
SwitchStep == context' # context

\* C14: a switch to a different Context starts exactly one prefetch pass under
\* the new Context, which dispatches the first Subject, non-foreground, and
\* replaces the armed interval by a newly armed one that closes over the new
\* Context and the unchanged cursor and has its whole period ahead, however
\* much of the period of the old one had passed; the cursor, the cache and the
\* selection stay as they were and nothing else is dispatched.
C14_SwitchRestarts ==
  [][SwitchStep =>
       /\ passes' = passes (+) SetToBag({[ctx |-> context', i |-> 0, issued |-> <<COMMODITIES[1]>>]})
       /\ inflight' = inflight (+) SetToBag({[commodity |-> COMMODITIES[1], ctx |-> context',
                                              isPrefetch |-> TRUE, awaited |-> TRUE]})
       /\ timers' = {[refreshIndex |-> refreshIndex, context |-> context']}
       /\ elapsed' = FALSE
       /\ refreshIndex' = refreshIndex
       /\ sentimentData' = sentimentData
       /\ selectedCommodity' = selectedCommodity]_vars

\* C14 witness: a switch and one tick have happened with a Subject selected;
\* the pass of the new Context has dispatched all N Subjects and the armed
\* interval, with the cursor 1 and the new Context, has its period ahead.
C14_Witness ==
  /\ context = "Global"
  /\ selectedCommodity # NULL
  /\ refreshIndex = 1
  /\ tickLog = <<COMMODITIES[2]>>
  /\ timers = {[refreshIndex |-> 1, context |-> "Global"]}
  /\ ~elapsed
  /\ \E p \in BagToSet(passes) : p.ctx = "Global" /\ p.issued = COMMODITIES

\* C15: in every state at most one interval is armed; once the component is
\* unmounted no interval is armed and no step is a tick.
C15_OneTimerNoneAfterTeardown ==
  /\ [](Cardinality(timers) <= 1 /\ (~mounted => timers = {}))
  /\ [][~mounted => ~TickStep]_vars

\* C15 witness: the component was unmounted after a Context switch and N
\* ticks, with a call still in flight; no interval is armed.
C15_Witness ==
  /\ ~mounted
  /\ timers = {}
  /\ context = "Global"
  /\ Len(tickLog) = N
  /\ inflight # EmptyBag

\* the key that the i-th remembered completion was dispatched for
SettledKey(i) == Key(settled[i].call.commodity, settled[i].call.ctx)

\* the i-th remembered completion succeeded and no later remembered
\* completion succeeded for the same key
LastWriteAt(i) ==
  /\ settled[i].ok
  /\ \A l \in (i + 1)..Len(settled) : ~(settled[l].ok /\ SettledKey(l) = SettledKey(i))

\* completions i < j of two calls that were in flight at once for one key,
\* both successful
RacePairs ==
  {p \in (1..Len(settled)) \X (1..Len(settled)) :
     /\ p[1] < p[2]
     /\ settled[p[1]].ok
     /\ settled[p[2]].ok
     /\ settled[p[2]].call \in settled[p[1]].rivals}

\* sentimentData[key] is the result data
Holds(key, data) == key \in DOMAIN sentimentData /\ sentimentData[key] = data

\* C16: when two dispatches for one key were in flight at once and both
\* succeeded, the entry of the key holds the result of the one that completed
\* last (until a later success for that key), whichever was issued first, and
\* an entry written at another key between the two completions is kept.
C16_LastCompletionWins ==
  \A p \in RacePairs :
    /\ LastWriteAt(p[2]) => Holds(SettledKey(p[2]), settled[p[2]].data)
    /\ \A m \in (p[1] + 1)..(p[2] - 1) :
         (LastWriteAt(m) /\ SettledKey(m) # SettledKey(p[2]))
           => Holds(SettledKey(m), settled[m].data)

\* C16 witness: the foreground dispatch for a key completed while the prefetch
\* dispatch for the same key, issued before it, was in flight; then a tick's
\* dispatch wrote another key; then the prefetch dispatch completed with a
\* different result, which the entry holds.
C16_Witness ==
  /\ Len(settled) = 3
  /\ <<1, 3>> \in RacePairs
  /\ ~settled[1].call.isPrefetch
  /\ settled[3].call.awaited
  /\ settled[1].data # settled[3].data
  /\ settled[2].ok
  /\ SettledKey(2) # SettledKey(3)
  /\ Holds(SettledKey(3), settled[3].data)
  /\ Holds(SettledKey(2), settled[2].data)

\* the step is a deselect: the selected Subject is given up
DeselectStep == selectedCommodity # NULL /\ selectedCommodity' = NULL

\* C17: deselect() sets the current Subject to null and leaves the Context,
\* the flags, the cache, the expanded driver, the cursor, the calls in flight,
\* the passes and the interval as they are; a foreground call that is still
\* in flight when nothing is selected writes its result at its own key when
\* it succeeds.
C17_DeselectOnlyDeselects ==
  /\ [][DeselectStep =>
          UNCHANGED <<context, loading, sentimentData, error, expandedDriver,
                      refreshIndex, inflight, passes, timers>>]_vars
  /\ [][\A call \in BagToSet(inflight), data \in Data :
          (/\ selectedCommodity = NULL
           /\ ~call.isPrefetch
           /\ CopiesIn(call, inflight') < CopiesIn(call, inflight)
           /\ Resolve(call, data)) =>
            /\ (call.commodity \o "-" \o call.ctx) \in DOMAIN sentimentData'
            /\ sentimentData'[call.commodity \o "-" \o call.ctx] = data]_vars

\* C17 witness: after select and deselect the foreground call is in flight
\* with nothing selected, and loading is still true.
C17_Witness ==
  /\ selectedCommodity = NULL
  /\ loading
  /\ BagCardinality(ForegroundCalls) = 1

\* C18: the failure of an awaited prefetch call does not end the pass and
\* stores no error: unless the call was for the last Subject the pass
\* dispatches the next Subject of the list in the same step; and, every call
\* settling eventually, whatever calls fail, all running passes end, the last
\* of them having dispatched exactly the N Subjects in order.
C18_FailureDoesNotAbortPass ==
  /\ [][\A call \in BagToSet(inflight), err \in ErrInputs :
          (/\ call.awaited
           /\ CopiesIn(call, inflight') < CopiesIn(call, inflight)
           /\ Reject(call, err)) =>
            /\ \A i \in 1..(N - 1) :
                 call.commodity = COMMODITIES[i] =>
                   /\ BagCardinality(passes') = BagCardinality(passes)
                   /\ CopiesIn([commodity |-> COMMODITIES[i + 1], ctx |-> call.ctx,
                                isPrefetch |-> TRUE, awaited |-> TRUE], inflight')
                        > CopiesIn([commodity |-> COMMODITIES[i + 1], ctx |-> call.ctx,
                                    isPrefetch |-> TRUE, awaited |-> TRUE], inflight)
            /\ call.commodity = COMMODITIES[N] => warmed' = COMMODITIES
            /\ error' \in {error, NoError}]_vars
  /\ (passes # EmptyBag) ~> (passes = EmptyBag /\ warmed = COMMODITIES)

\* C18 witness: the pass has ended after N dispatches although every one of
\* them failed: nothing is cached, and no error is stored.
C18_Witness ==
  /\ passes = EmptyBag
  /\ warmed = COMMODITIES
  /\ sentimentData = [k \in {} |-> 0]
  /\ error = NoError
  /\ selectedCommodity = NULL

\* the step is a retry: a foreground call is issued while a Subject is
\* selected (a select issues its call in the step that selects)
RetryStep ==
  /\ selectedCommodity # NULL
  /\ \E c \in BagToSet(inflight') :
       ~c.isPrefetch /\ CopiesIn(c, inflight') > CopiesIn(c, inflight)

\* C19: retry() is taken with a Subject selected and an error shown; it issues
\* exactly one foreground dispatch for (current Subject, current Context),
\* sets loading, clears the error and leaves the selection, the Context and
\* the cache as they were.
C19_RetryRedispatches ==
  [][RetryStep =>
       /\ error # NoError
       /\ ~loading
       /\ inflight' = inflight (+) SetToBag({[commodity |-> selectedCommodity, ctx |-> context,
                                              isPrefetch |-> FALSE, awaited |-> FALSE]})
       /\ loading' = TRUE
       /\ error' = NoError
       /\ selectedCommodity' = selectedCommodity
       /\ context' = context
       /\ sentimentData' = sentimentData]_vars

\* C19 witness: after select, a failure and retry (two clicks, no Context
\* switch) the second foreground call is in flight, loading is true and the
\* error is cleared.
C19_Witness ==
  /\ selectedCommodity # NULL
  /\ loading
  /\ error = NoError
  /\ BagCardinality(ForegroundCalls) = 1
  /\ switches = 0
  /\ budget = MaxUser - 2

\* C20: loading is true in every state in which a foreground dispatch is in
\* flight, also when another foreground dispatch has completed meanwhile.
C20_LoadingWhileForeground == ForegroundCalls # EmptyBag => loading

\* the step completes a foreground call
ForegroundDone ==
  \E c \in BagToSet(inflight) :
    ~c.isPrefetch /\ CopiesIn(c, inflight') < CopiesIn(c, inflight)

\* C21: the step in which a foreground call returns or fails sets loading to
\* false, and, every call settling eventually, every state with loading true
\* is followed by a state with loading false.
C21_LoadingEnds ==
  /\ [][ForegroundDone => ~loading']_vars
  /\ loading ~> ~loading

\* C21 witness: a foreground call has failed after the Subject was
\* deselected; loading is false and no foreground call is in flight.
C21_Witness ==
  /\ selectedCommodity = NULL
  /\ ~loading
  /\ error = <<MsgRateLimit>>
  /\ ForegroundCalls = EmptyBag

\* C22: a tick fires only when a whole period has run out on the armed interval
\* with no Context switch and no tick since, as each of them arms an interval
\* with its period ahead; so while the Context is switched again and again
\* before any period runs out, no tick is dispatched and the cursor stays;
\* and once the Context stays the same, every Subject is dispatched by ticks
\* again and again.
C22_TickAfterQuietPeriod ==
  /\ [][TickStep => elapsed]_vars
  /\ [][(SwitchStep \/ TickStep) => ~elapsed']_vars
  /\ ([]<>(context = "India") /\ []<>(context = "Global") /\ []~elapsed)
       => [](tickLog = <<>> /\ refreshIndex = 0)
  /\ (\E ctx \in Contexts : <>[](context = ctx))
       => \A c \in Subjects : []<>(tickLog # <<>> /\ tickLog[Len(tickLog)] = c)

\* C22 witness: the Context has been switched to Global and back, then ticks
\* have gone once round the Subjects, and the period has run out again.
C22_Witness ==
  /\ context = "India"
  /\ Key(COMMODITIES[1], "Global") \in DOMAIN sentimentData
  /\ tickLog = <<COMMODITIES[(1 % N) + 1], COMMODITIES[1]>>
  /\ refreshIndex = 0
  /\ elapsed

\* C23: in every reachable state, loading = true implies error = null.
C23_LoadingWithoutError == loading => error = NoError

\* C23 witness: loading is set and no error is stored while two foreground
\* calls are in flight, after a tick of the interval.
C23_Witness ==
  /\ loading
  /\ error = NoError
  /\ BagCardinality(ForegroundCalls) = 2
  /\ tickLog # <<>>

\* C24: in every reachable state, loading = true implies that a foreground
\* call is in flight.
C24_LoadingHasForeground == loading => ForegroundCalls # EmptyBag

\* C24 witness: the user has left the detail view while the foreground call was
\* in flight; loading is still set and the call is still in flight.
C24_Witness ==
  /\ loading
  /\ selectedCommodity = NULL
  /\ BagCardinality(ForegroundCalls) = 1
  /\ PassCalls = EmptyBag

\* the foreground completions with a failure that settled holds
FailedForeground ==
  {i \in 1..Len(settled) : ~settled[i].ok /\ ~settled[i].call.isPrefetch}

\* the completion that stored the error: the latest failed foreground one
\* (every later start of a call would have cleared the error)
ErrorOrigin ==
  settled[CHOOSE i \in FailedForeground : \A j \in FailedForeground : j <= i].call

\* C25: whenever a Subject is selected and an error is stored, the error was
\* stored by the failure of a foreground call for the selected Subject under
\* the current Context (as far as settled goes back).
C25_ErrorOfSelection ==
  (selectedCommodity # NULL /\ error # NoError /\ FailedForeground # {})
    => /\ ErrorOrigin.commodity = selectedCommodity
       /\ ErrorOrigin.ctx = context

----------------------------------------------------------------------------
TypeOK ==
  /\ context \in Contexts
  /\ selectedCommodity \in Subjects \cup {NULL}
  /\ loading \in BOOLEAN
  /\ DOMAIN sentimentData \subseteq AllKeys
  /\ \A k \in DOMAIN sentimentData : sentimentData[k] \in Data \cup RaceData
  /\ Len(error) <= 1
  /\ expandedDriver \in {NoDriver} \cup 0..(NumDrivers - 1)
  /\ refreshIndex \in Int
  /\ Inflight <= MaxInflight
  /\ BagCardinality(passes) <= MaxInflight
  /\ switches \in 0..MaxSwitches
  /\ mounted \in BOOLEAN
  /\ elapsed \in BOOLEAN
  /\ recording \in BOOLEAN
  /\ Len(settled) <= 3
  /\ budget \in 0..MaxUserDeep
====
